---- MODULE Spec2Model ----
(***************************************************************************)
(* Model of converter_modasai_gnode.py: the EEG/Tobii to NIX converter.    *)
(*                                                                         *)
(* Conventions.  Python indices are zero-based; the model keeps them       *)
(* zero-based as VALUES and reads a TLA+ sequence at index+1 (At).  Times  *)
(* of the primary stream are integers counted in ticks of                  *)
(* 1/TicksPerSecond s.  A quotient the code computes in floating point is  *)
(* kept as an exact fraction [num, den].  An offset value is tagged with   *)
(* its Python type: "float" (computed), "str" (taken from argparse, which  *)
(* declares type=str) or "none".                                           *)
(***************************************************************************)
EXTENDS Integers, Sequences, FiniteSets, TLC

VARIABLES
    pc,               \* position of the run
    entry,            \* function the run was started with
    py,               \* major version of the interpreter (2 or 3)
    args,             \* parsed command line (main only)
    metadatafile_exists, \* the metadata file named by the caller exists
    tobii_src,        \* records of the file named by --tobii-data
    time,             \* time vector of the primary stream
    trigger,          \* trigger channel of the primary stream
    nchan,            \* data.shape[0]
    sr,               \* nominal sampling rate delivered by load_data
    tobii_data,       \* [isFalse, recs]: the literal False, or the record list
    eeg_offset,       \* tagged offset value
    tobii_offset,     \* tagged offset value
    sync_trigger_eeg, \* local of determine_offsets (line 182), as last computed
    resolver_calls,   \* number of calls of determine_offsets in this run
    exc,              \* uncaught exception that ended the run, or NoExc
    f,                \* output file: "unopened", "open", "flushed", "closed"
    md_written,       \* write_session_metadata has completed
    arrays,           \* data arrays of the block, in creation order
    group_eeg,        \* names in group "eeg data".data_arrays
    group_tobii,      \* names in group "tobii data".data_arrays
    trigger_tag,      \* tag "trigger signal"
    corner_events,    \* multi tag "corners"
    exp_starts        \* multi tag "experiment starts"

vars == << pc, entry, py, args, metadatafile_exists, tobii_src, time, trigger, nchan, sr, tobii_data,
           eeg_offset, tobii_offset, sync_trigger_eeg, resolver_calls, exc, f,
           md_written, arrays, group_eeg, group_tobii, trigger_tag,
           corner_events, exp_starts >>

(***************************************************************************)
(* Bounds of the explored inputs.                                          *)
(***************************************************************************)
MaxSyncLen == 6     \* longest trigger explored by SpecOffsets
MaxEventLen == 5    \* longest trigger explored by SpecEvents
MaxRecords == 2     \* longest record stream explored by SpecTobii
MaxChan == 2        \* most primary channels

(***************************************************************************)
(* numpy / builtin helpers                                                 *)
(***************************************************************************)
At(s, i) == s[i + 1]

RECURSIVE SortedSeq(_)
SortedSeq(S) ==
    IF S = {} THEN << >>
    ELSE LET m == CHOOSE x \in S : \A y \in S : x <= y
         IN  << m >> \o SortedSeq(S \ {m})

Abs(x) == IF x < 0 THEN 0 - x ELSE x

\* np.diff(a)
Diff(a) == [i \in 1..(Len(a) - 1) |-> a[i + 1] - a[i]]

\* np.where(b)[0] and np.nonzero(a)[0]: zero-based indices, ascending
Where(b) == SortedSeq({i - 1 : i \in {j \in 1..Len(b) : b[j]}})
Nonzero(a) == Where([i \in 1..Len(a) |-> a[i] # 0])

\* a[mask] for a boolean mask of the same length
RECURSIVE MaskFrom(_, _, _)
MaskFrom(a, mask, i) ==
    IF i > Len(a) THEN << >>
    ELSE (IF mask[i] THEN << a[i] >> ELSE << >>) \o MaskFrom(a, mask, i + 1)
Masked(a, mask) == MaskFrom(a, mask, 1)

\* filter(lambda x: x.__contains__(prop), records)
HasProp(records, prop) == SelectSeq(records, LAMBDA x : prop \in DOMAIN x)

\* sorted(filtered, key=operator.itemgetter("ts")): stable, ascending
RECURSIVE SortedByTs(_)
SortedByTs(recs) ==
    IF recs = << >> THEN << >>
    ELSE LET m == CHOOSE i \in 1..Len(recs) :
                     /\ \A j \in 1..Len(recs) : recs[i].ts <= recs[j].ts
                     /\ \A j \in 1..(i - 1) : recs[j].ts > recs[i].ts
             rest == [k \in 1..(Len(recs) - 1) |->
                         IF k < m THEN recs[k] ELSE recs[k + 1]]
         IN  << recs[m] >> \o SortedByTs(rest)

(***************************************************************************)
(* Values                                                                  *)
(***************************************************************************)
NoExc == "none"
NoOffset == [kind |-> "none", val |-> 0, text |-> ""]
Float(v) == [kind |-> "float", val |-> v, text |-> ""]
Str(s) == [kind |-> "str", val |-> 0, text |-> s]
Unset == [set |-> FALSE, val |-> 0]
Local(v) == [set |-> TRUE, val |-> v]

TicksPerSecond == 2 * 512
FixedLag == 10 * (10 ^ 6)
EventRate == 512

NoTag == [exists |-> FALSE, positions |-> << >>, has_extents |-> FALSE,
          extents |-> << >>, references |-> << >>]

(***************************************************************************)
(* determine_offsets (lines 169-184)                                       *)
(***************************************************************************)
\* variant: the magnitude of the step is compared, so falling steps count
trigger_on_erg_magnitude(trg) ==
    LET d == Diff(trg) IN [i \in 1..Len(d) |-> Abs(d[i]) > 1 /\ Abs(d[i]) < 5]

\* line 180: np.logical_and(np.diff(trigger) > 1, np.diff(trigger) < 5)
trigger_on_erg(trg) ==
    LET d == Diff(trg) IN [i \in 1..Len(d) |-> d[i] > 1 /\ d[i] < 5]

\* line 181: the records that have "dir" and whose "dir" is "out"
sync_trigger_tobii(recs) ==
    SelectSeq(HasProp(recs, "dir"), LAMBDA y : y.dir = "out")

Raised(kind, line, eeg) ==
    [exc |-> kind, line |-> line, eeg |-> eeg,
     ret_eeg |-> NoOffset, ret_tobii |-> NoOffset]

\* lines 182-184, given idx = np.where(trigger_on_erg)[0] and the filtered
\* records.  line 182 indexes the 4th sync edge (IndexError when there are
\* fewer).  line 184 evaluates sync_trigger_tobii[0]+10*10**6: under Python 3
\* a filter object is not subscriptable (TypeError); under Python 2 the list
\* is indexed (IndexError when empty) and its first element, a record
\* (dict), is added to an int (TypeError).
offsets_from(pyv, tm, idx, outs) ==
    IF Len(idx) < 4 THEN Raised("IndexError", 182, Unset)
    ELSE IF pyv = 3 THEN Raised("TypeError", 184, Local(At(tm, At(idx, 3))))
    ELSE IF outs = << >> THEN Raised("IndexError", 184, Local(At(tm, At(idx, 3))))
    ELSE Raised("TypeError", 184, Local(At(tm, At(idx, 3))))

\* variant: a missing sync edge is swallowed and both offsets default to 0
determine_offsets_lenient(pyv, tm, trg, td) ==
    [exc |-> NoExc, line |-> 184, eeg |-> Unset,
     ret_eeg |-> Float(0), ret_tobii |-> Float(0)]

\* The whole call.  line 181 iterates tobii_data: the literal False is not
\* iterable (TypeError).
determine_offsets(pyv, tm, trg, td) ==
    IF td.isFalse THEN Raised("TypeError", 181, Unset)
    ELSE offsets_from(pyv, tm, Where(trigger_on_erg(trg)), sync_trigger_tobii(td.recs))

(***************************************************************************)
(* main (lines 629-662)                                                    *)
(***************************************************************************)
container == << f, md_written, arrays, group_eeg, group_tobii, trigger_tag,
                corner_events, exp_starts >>
inputs == << entry, py, args, metadatafile_exists, tobii_src, trigger, nchan, sr >>

\* lines 644-646: a missing metadata file ends the run with sys.exit(0)
main_check_metadata ==
    /\ pc = "main_644"
    /\ pc' = IF metadatafile_exists THEN "main_648" ELSE "exit"
    /\ UNCHANGED << inputs, container, time, tobii_data, eeg_offset,
                    tobii_offset, sync_trigger_eeg, resolver_calls, exc >>

\* lines 648-652: load_data, then load_tobii_data or the literal False
main_load ==
    /\ pc = "main_648"
    /\ tobii_data' = IF args.tobiifile # ""
                     THEN [isFalse |-> FALSE, recs |-> tobii_src]
                     ELSE [isFalse |-> TRUE, recs |-> << >>]
    /\ pc' = "main_653"
    /\ UNCHANGED << inputs, container, time, eeg_offset, tobii_offset,
                    sync_trigger_eeg, resolver_calls, exc >>

\* lines 654-657: a non-empty command-line value replaces the resolved one
overridden(arg, resolved) == IF arg # "" THEN Str(arg) ELSE resolved

\* lines 653-660: determine_offsets is called first, whatever the command
\* line says; the overrides replace its results; time - eeg_offset is a
\* TypeError when eeg_offset is the str taken from the command line.
main_offsets ==
    /\ pc = "main_653"
    /\ resolver_calls' = resolver_calls + 1
    /\ \E r \in {determine_offsets(py, time, trigger, tobii_data)} :
          /\ sync_trigger_eeg' = r.eeg
          /\ IF r.exc # NoExc
             THEN /\ exc' = r.exc
                  /\ pc' = "exit"
                  /\ UNCHANGED << time, eeg_offset, tobii_offset >>
             ELSE /\ eeg_offset' = overridden(args.eeg_offset, r.ret_eeg)
                  /\ tobii_offset' = overridden(args.tobii_offset, r.ret_tobii)
                  /\ IF args.eeg_offset = ""
                     THEN /\ time' = [i \in 1..Len(time) |-> time[i] - r.ret_eeg.val]
                          /\ pc' = "convert_189"
                          /\ exc' = exc
                     ELSE /\ exc' = "TypeError"
                          /\ pc' = "exit"
                          /\ time' = time
    /\ UNCHANGED << inputs, container, tobii_data >>

(***************************************************************************)
(* Data arrays and dimensions of the store                                 *)
(***************************************************************************)
SampledDim == [kind |-> "sampled", ticks |-> << >>, labels |-> << >>]
RangeDim(ticks) == [kind |-> "range", ticks |-> ticks, labels |-> << >>]
SetDim(labels) == [kind |-> "set", ticks |-> << >>, labels |-> labels]
AliasDim == [kind |-> "alias", ticks |-> << >>, labels |-> << >>]

\* create_data_array(name, type, data=...); size is the number of samples
DataArray(name, type, size, data, dims) ==
    [name |-> name, type |-> type, size |-> size, data |-> data, dims |-> dims]

Names(das) == [i \in 1..Len(das) |-> das[i].name]
Range(s) == {s[i] : i \in 1..Len(s)}

(***************************************************************************)
(* write_channel_data (lines 71-104), write_trigger_signal (150-166)       *)
(***************************************************************************)
\* lines 75-77: dt = mean(diff(time)); use_range = 1/dt - sr > eps(float32).
\* With time in ticks, dt = (time[-1]-time[0]) / ((n-1)*TicksPerSecond) s, so
\* 1/dt > sr iff (n-1)*TicksPerSecond > sr*(time[-1]-time[0]); a single
\* sample gives dt = nan and the comparison is False.
use_range(tm, rate) ==
    IF Len(tm) < 2 THEN FALSE
    ELSE (Len(tm) - 1) * TicksPerSecond > rate * (tm[Len(tm)] - tm[1])

ChannelName(ch) == "channel " \o ToString(ch)

\* lines 85-102: one array per row of data, each with one time dimension
write_channel_data(tm, n, rate) ==
    [ch \in 1..n |->
        DataArray(ChannelName(ch), "nix.eeg.channeldata", Len(tm), << >>,
                  << IF use_range(tm, rate) THEN RangeDim(tm) ELSE SampledDim >>)]

\* lines 151-159: the trigger array
trigger_da(trg) ==
    DataArray("trigger signal", "nix.eeg.trigger", Len(trg), trg, << SampledDim >>)

\* lines 161-166: the tag over the channel group
write_trigger_tag(tm, geeg) ==
    [exists |-> TRUE, positions |-> << 0 >>, has_extents |-> TRUE,
     extents |-> << tm[Len(tm)] >>, references |-> geeg]

(***************************************************************************)
(* Property channels of the secondary stream (lines 240-589)               *)
(*                                                                         *)
(* The fourteen builder calls differ in the array name, the property, the  *)
(* eye filter, the row they append, the labels of the set dimension and in *)
(* who appends the array to the group: each write_tobii_* below is that    *)
(* description of one source function, and Built is their common body.     *)
(***************************************************************************)
\* variant: the eye filter is missing
EyeFiltered_any_eye(recs, prop, eye) == HasProp(recs, prop)

\* filter(lambda y: y["eye"] == eye, filter(lambda x: x.__contains__(prop), ..))
EyeFiltered(recs, prop, eye) ==
    SelectSeq(HasProp(recs, prop), LAMBDA y : y.eye = eye)

\* the filter of builder b
Filtered(recs, b) ==
    IF b.eye = "" THEN HasProp(recs, b.prop) ELSE EyeFiltered(recs, b.prop, b.eye)

\* ts.append(e["ts"] - tobii_offset)
Timestamps(srt, off) == [i \in 1..Len(srt) |-> srt[i].ts - off.val]

\* the row combined.append(...) adds for record e
Row(e, b) ==
    CASE b.row = "vec3" -> << e[b.prop][1], e[b.prop][2], e[b.prop][3], e.s >>
      [] b.row = "scalar" -> << e[b.prop], e.s >>
      [] b.row = "gp" -> << e.gp[1], e.gp[2], e.l, e.s >>
      [] b.row = "pts" -> << e.pts, e.pv, e.s >>
      [] b.row = "dir" -> << IF e.dir = "in" THEN 1 ELSE 0, e.sig, e.s >>
Combined(srt, b) == [i \in 1..Len(srt) |-> Row(srt[i], b)]

\* variant: no branch on len(combined), both dimensions always appended
PropertyArray_unbranched(name, combined, ts, labels) ==
    DataArray(name, "nix.tobii.property", Len(combined), combined,
              << RangeDim(ts), SetDim(labels) >>)

\* create_data_array(..., data=combined) and the branch on len(combined) < 1:
\* an empty channel gets one set dimension without labels, a non-empty one a
\* range dimension over ts and a labelled set dimension.
PropertyArray(name, combined, ts, labels) ==
    DataArray(name, "nix.tobii.property", Len(combined), combined,
              IF Len(combined) < 1
              THEN << SetDim(<< >>) >>
              ELSE << RangeDim(ts), SetDim(labels) >>)

\* The body of a builder on its filtered, sorted records.  e["ts"] -
\* tobii_offset is a TypeError when the offset is not a number; it is
\* evaluated once per record, before the array is created.  append tells
\* whether the array id is appended to the group: always for a returned
\* array (lines 213-226), else only in the non-empty branch (e.g. line 272).
Built(srt, off, b) ==
    IF srt # << >> /\ off.kind # "float"
    THEN [exc |-> "TypeError", da |-> PropertyArray(b.name, << >>, << >>, << >>),
          append |-> FALSE]
    ELSE [exc |-> NoExc,
          da |-> PropertyArray(b.name, Combined(srt, b), Timestamps(srt, off), b.labels),
          append |-> b.returned \/ Len(srt) >= 1]

build(recs, off, b) == Built(SortedByTs(Filtered(recs, b)), off, b)

XYZE == << "X", "Y", "Z", "error" >>
Builder(name, prop, eye, row, labels, returned) ==
    [name |-> name, prop |-> prop, eye |-> eye, row |-> row, labels |-> labels,
     returned |-> returned]

write_tobii_pupil_center(eye) ==
    Builder("pupil center " \o eye, "pc", eye, "vec3", XYZE, TRUE)
write_tobii_pupil_diameter(eye) ==
    Builder("pupil diameter " \o eye, "pd", eye, "scalar", << "diameter", "error" >>, TRUE)
write_tobii_gaze_dir(eye) ==
    Builder("gaze direction " \o eye, "gd", eye, "vec3", XYZE, TRUE)
write_tobii_gaze_pos ==
    Builder("gaze position", "gp", "", "gp", << "X", "Y", "l", "error" >>, FALSE)
write_tobii_gaze_pos_3d == Builder("gaze position 3D", "gp3", "", "vec3", XYZE, FALSE)
write_tobii_gyroscope == Builder("MEMS gyroscope", "gy", "", "vec3", XYZE, FALSE)
write_tobii_accelerometer == Builder("MEMS accelerometer", "ac", "", "vec3", XYZE, FALSE)
write_tobii_pipe_ts ==
    Builder("pipeline timestamp", "pts", "", "pts",
            << "pipe timestamp", "pipe version", "error" >>, FALSE)
write_tobii_video_ts ==
    Builder("video timestamp", "vts", "", "scalar", << "video timestamp", "error" >>, FALSE)
write_tobii_eye_video_ts ==
    Builder("evts", "evts", "", "scalar", << "eye video timestamp", "error" >>, FALSE)
write_tobii_sync_port ==
    Builder("sync port", "dir", "", "dir", << "direction", "signal", "error" >>, FALSE)

\* lines 213-235: the fourteen builder calls, in call order
tobii_builds ==
    << write_tobii_pupil_center("left"), write_tobii_pupil_center("right"),
       write_tobii_pupil_diameter("left"), write_tobii_pupil_diameter("right"),
       write_tobii_gaze_dir("left"), write_tobii_gaze_dir("right"),
       write_tobii_gaze_pos, write_tobii_gaze_pos_3d, write_tobii_gyroscope,
       write_tobii_accelerometer, write_tobii_pipe_ts, write_tobii_video_ts,
       write_tobii_eye_video_ts, write_tobii_sync_port >>

\* the builders run in order and the first exception ends the call: bs are
\* the results of the calls, n the number of calls before the raising one
completed(bs) ==
    Cardinality({k \in 1..Len(bs) : \A j \in 1..k : bs[j].exc = NoExc})
collected(bs, n) ==
    [exc |-> IF n = Len(bs) THEN NoExc ELSE bs[n + 1].exc,
     das |-> [i \in 1..n |-> bs[i].da],
     group |-> Names([i \in 1..Len(SelectSeq(SubSeq(bs, 1, n), LAMBDA b : b.append))
                        |-> SelectSeq(SubSeq(bs, 1, n), LAMBDA b : b.append)[i].da])]
collect(bs) == collected(bs, completed(bs))

\* write_tobii_data (lines 210-237); filter() over the literal False raises
\* in the first builder.  das are the arrays created, group the ids appended.
write_tobii_data(td, off) ==
    IF td.isFalse
    THEN [exc |-> "TypeError", das |-> << >>, group |-> << >>]
    ELSE collect([k \in 1..Len(tobii_builds) |-> build(td.recs, off, tobii_builds[k])])

(***************************************************************************)
(* save_events (lines 107-147)                                             *)
(***************************************************************************)
\* line 109: np.nonzero(np.diff(trigger))[0]
transition_indices(trg) == Nonzero(Diff(trg))

\* line 108: trigger[np.nonzero(np.diff(trigger))], the trigger read AT each
\* transition index
transition_states(trg, idx) == [k \in 1..Len(idx) |-> At(trg, idx[k])]

\* line 110: indices[0].astype(np.double) / 512
transition_times(idx) == [k \in 1..Len(idx) |-> [num |-> idx[k], den |-> EventRate]]

\* line 111
corner_times(times, states) ==
    Masked(times, [k \in 1..Len(states) |-> states[k] = 8 \/ states[k] = 10])

\* line 112
exp_start_times(times, states) ==
    Masked(times, [k \in 1..Len(states) |-> states[k] = 4 \/ states[k] = 6])

\* variant: the last extent is replaced only from three markers on
exp_extents_from_three(exp_start) ==
    IF Len(exp_start) > 2
    THEN [k \in 1..Len(exp_start) |-> IF k = Len(exp_start) THEN 100 ELSE 1]
    ELSE << 100 >>

\* lines 127-131: np.ones(len(exp_start)), its last element set to 100 when
\* there is more than one, else the list [100]
exp_extents(exp_start) ==
    IF Len(exp_start) > 1
    THEN [k \in 1..Len(exp_start) |-> IF k = Len(exp_start) THEN 100 ELSE 1]
    ELSE << 100 >>

\* variant: the loop over group_tobii.data_arrays is missing
event_references_eeg_only(geeg, gtobii) == geeg

\* lines 139-147: the references appended to each multi tag
event_references(geeg, gtobii) == geeg \o gtobii

\* lines 116-138: the arrays and multi tags made of the positions, the
\* extents and the references
events_of(corners, exp_start, extents, refs) ==
    [arrays |->
        << DataArray("corner_times", "nix.timestamps", Len(corners), corners,
                     << AliasDim >>),
           DataArray("experiment times", "nix.timestamps", Len(exp_start),
                     exp_start, << AliasDim >>),
           DataArray("experiment durations", "nix.extents", Len(extents),
                     extents, << AliasDim >>) >>,
     corner_events |->
        [exists |-> TRUE, positions |-> corners, has_extents |-> FALSE,
         extents |-> << >>, references |-> refs],
     exp_starts |->
        [exists |-> TRUE, positions |-> exp_start, has_extents |-> TRUE,
         extents |-> extents, references |-> refs]]

classified(times, states, refs) ==
    events_of(corner_times(times, states), exp_start_times(times, states),
              exp_extents(exp_start_times(times, states)), refs)

at_transitions(trg, idx, refs) ==
    classified(transition_times(idx), transition_states(trg, idx), refs)

\* the whole call
save_events(trg, geeg, gtobii) ==
    at_transitions(trg, transition_indices(trg), event_references(geeg, gtobii))

(***************************************************************************)
(* convert (lines 188-207), one action per statement                       *)
(***************************************************************************)
params == << inputs, time, tobii_data, eeg_offset, tobii_offset,
             sync_trigger_eeg, resolver_calls >>

\* lines 189-192: nix.File.open(..., Overwrite) and create_block
convert_open ==
    /\ pc = "convert_189"
    /\ f' = "open"
    /\ pc' = "convert_194"
    /\ UNCHANGED << params, exc, md_written, arrays, group_eeg, group_tobii,
                    trigger_tag, corner_events, exp_starts >>

\* line 194: write_session_metadata opens the metadata file (IOError when it
\* does not exist) and echoes its rows into sections; the rows themselves
\* are not part of the state
convert_metadata ==
    /\ pc = "convert_194"
    /\ IF metadatafile_exists
       THEN md_written' = TRUE /\ pc' = "convert_197" /\ exc' = exc
       ELSE md_written' = md_written /\ pc' = "exit" /\ exc' = "IOError"
    /\ UNCHANGED << params, f, arrays, group_eeg, group_tobii, trigger_tag,
                    corner_events, exp_starts >>

\* line 197: write_channel_data
convert_channels ==
    /\ pc = "convert_197"
    /\ \E das \in {write_channel_data(time, nchan, sr)} :
          /\ arrays' = arrays \o das
          /\ group_eeg' = Names(das)
    /\ pc' = "convert_198"
    /\ UNCHANGED << params, exc, f, md_written, group_tobii, trigger_tag,
                    corner_events, exp_starts >>

\* line 198: write_trigger_signal
convert_trigger ==
    /\ pc = "convert_198"
    /\ arrays' = Append(arrays, trigger_da(trigger))
    /\ trigger_tag' = write_trigger_tag(time, group_eeg)
    /\ pc' = "convert_201"
    /\ UNCHANGED << params, exc, f, md_written, group_eeg, group_tobii,
                    corner_events, exp_starts >>

\* line 201: write_tobii_data
convert_tobii ==
    /\ pc = "convert_201"
    /\ \E r \in {write_tobii_data(tobii_data, tobii_offset)} :
          /\ arrays' = arrays \o r.das
          /\ group_tobii' = r.group
          /\ exc' = r.exc
          /\ pc' = IF r.exc = NoExc THEN "convert_204" ELSE "exit"
    /\ UNCHANGED << params, f, md_written, group_eeg, trigger_tag,
                    corner_events, exp_starts >>

\* line 204: save_events
convert_events ==
    /\ pc = "convert_204"
    /\ \E r \in {save_events(trigger, group_eeg, group_tobii)} :
          /\ arrays' = arrays \o r.arrays
          /\ corner_events' = r.corner_events
          /\ exp_starts' = r.exp_starts
    /\ pc' = "convert_206"
    /\ UNCHANGED << params, exc, f, md_written, group_eeg, group_tobii,
                    trigger_tag >>

\* line 206: f.flush()
convert_flush ==
    /\ pc = "convert_206"
    /\ f' = "flushed"
    /\ pc' = "convert_207"
    /\ UNCHANGED << params, exc, md_written, arrays, group_eeg, group_tobii,
                    trigger_tag, corner_events, exp_starts >>

\* line 207: f.close(), and the run ends
convert_close ==
    /\ pc = "convert_207"
    /\ f' = "closed"
    /\ pc' = "exit"
    /\ UNCHANGED << params, exc, md_written, arrays, group_eeg, group_tobii,
                    trigger_tag, corner_events, exp_starts >>

Next ==
    \/ main_check_metadata
    \/ main_load
    \/ main_offsets
    \/ convert_open
    \/ convert_metadata
    \/ convert_channels
    \/ convert_trigger
    \/ convert_tobii
    \/ convert_events
    \/ convert_flush
    \/ convert_close

(***************************************************************************)
(* Inputs                                                                  *)
(***************************************************************************)
\* a time vector of n samples: first sample t0, constant step, in ticks
TimeAxis(t0, step, n) == [i \in 1..n |-> t0 + (i - 1) * step]
TimeAxes == { [t0 |-> 0, step |-> 2], [t0 |-> 3, step |-> 4] }
Rates == {256, 512}

SeqsUpTo(S, n) == UNION {[1..k -> S] : k \in 1..n}

ExampleTrigger == << 0, 0, 8, 8, 0, 0, 4, 4, 0 >>
SyncTrigger == << 0, 2, 0, 2, 4, 6, 8, 10, 0, 4, 0 >>
BaseTriggers == { ExampleTrigger, SyncTrigger, << 0 >>, << 0, 4, 6, 0, 10 >> }
SyncLevels == {0, 1, 2, 4, 6}
EventLevels == {0, 4, 6, 8, 10}

\* Records as the device writes them: "ts" and "s" always, one property per
\* record with its companion fields, "eye" with each eye-dependent property.
PdLeft(ts, v) == [ts |-> ts, s |-> 0, pd |-> v, eye |-> "left"]
RecordPool ==
    { PdLeft(4, 31), PdLeft(2, 32),
      [ts |-> 3, s |-> 0, pd |-> 33, eye |-> "right"],
      [ts |-> 2, s |-> 0, pc |-> << 1, 2, 3 >>, eye |-> "left"],
      [ts |-> 5, s |-> 1, pc |-> << 4, 5, 6 >>, eye |-> "right"],
      [ts |-> 1, s |-> 0, gd |-> << 7, 8, 9 >>, eye |-> "left"],
      [ts |-> 6, s |-> 0, gd |-> << 9, 8, 7 >>, eye |-> "right"],
      [ts |-> 3, s |-> 0, gp |-> << 1, 1 >>, l |-> 2],
      [ts |-> 4, s |-> 0, gp3 |-> << 1, 2, 3 >>],
      [ts |-> 2, s |-> 0, gy |-> << 3, 2, 1 >>],
      [ts |-> 5, s |-> 0, ac |-> << 0, 9, 0 >>],
      [ts |-> 1, s |-> 0, pts |-> 11, pv |-> 1],
      [ts |-> 2, s |-> 0, vts |-> 12],
      [ts |-> 3, s |-> 0, evts |-> 13],
      [ts |-> 7, s |-> 0, dir |-> "out", sig |-> 1],
      [ts |-> 1, s |-> 0, dir |-> "in", sig |-> 0] }

ExampleStream ==
    << PdLeft(4, 31), [ts |-> 1, s |-> 0, dir |-> "in", sig |-> 0],
       PdLeft(2, 32), [ts |-> 7, s |-> 0, dir |-> "out", sig |-> 1],
       [ts |-> 9, s |-> 0, dir |-> "out", sig |-> 0], PdLeft(2, 33),
       [ts |-> 3, s |-> 0, pd |-> 34, eye |-> "right"] >>
BaseStreams == { << >>, ExampleStream }

NoArgs == [tobiifile |-> "", eeg_offset |-> "", tobii_offset |-> ""]
False == [isFalse |-> TRUE, recs |-> << >>]
Records(recs) == [isFalse |-> FALSE, recs |-> recs]

\* the state before any statement of the entry function has run
Fresh ==
    /\ sync_trigger_eeg = Unset
    /\ resolver_calls = 0
    /\ exc = NoExc
    /\ f = "unopened"
    /\ md_written = FALSE
    /\ arrays = << >>
    /\ group_eeg = << >>
    /\ group_tobii = << >>
    /\ trigger_tag = NoTag
    /\ corner_events = NoTag
    /\ exp_starts = NoTag

\* python converter_modasai_gnode.py filename -m M [-t T] [-e E] [-o O]
ArgSets ==
    [tobiifile : {"", "tobii.json"}, eeg_offset : {"", "3"}, tobii_offset : {"", "5"}]
PlainArgs == [tobiifile |-> "tobii.json", eeg_offset |-> "", tobii_offset |-> ""]

InitMain(triggers, streams, axes, argsets, mds, chans, rates) ==
    /\ entry = "main"
    /\ pc = "main_644"
    /\ py \in {2, 3}
    /\ metadatafile_exists \in mds
    /\ args \in argsets
    /\ tobii_src \in streams
    /\ trigger \in triggers
    /\ \E a \in axes : time = TimeAxis(a.t0, a.step, Len(trigger))
    /\ nchan \in chans
    /\ sr \in rates
    /\ tobii_data = False
    /\ eeg_offset = NoOffset
    /\ tobii_offset = NoOffset
    /\ Fresh

\* convert(time, trigger, data, parts, sr, tobii_data, metadatafile,
\*         eeg_offset, tobii_offset) called with the kinds of value main
\* hands over: tobii_data a record list or False, an offset a number or the
\* str of the command line
InitConvert(pys, triggers, tds, axes, mds, chans, rates, eoffs, toffs) ==
    /\ entry = "convert"
    /\ pc = "convert_189"
    /\ py \in pys
    /\ metadatafile_exists \in mds
    /\ args = NoArgs
    /\ tobii_src = << >>
    /\ trigger \in triggers
    /\ \E a \in axes : time = TimeAxis(a.t0, a.step, Len(trigger))
    /\ nchan \in chans
    /\ sr \in rates
    /\ tobii_data \in tds
    /\ eeg_offset \in eoffs
    /\ tobii_offset \in toffs
    /\ Fresh

BaseData == {False} \cup {Records(s) : s \in BaseStreams}
OneAxis == { [t0 |-> 3, step |-> 4] }

InitBase ==
    \/ InitMain(BaseTriggers, BaseStreams, TimeAxes, ArgSets, BOOLEAN,
                0..MaxChan, Rates)
    \/ InitConvert({2, 3}, BaseTriggers, BaseData, TimeAxes, BOOLEAN, 0..MaxChan, Rates,
                   {Float(0), Str("3")}, {Float(5), Str("5")})

\* every trigger over the sync levels, run through main
InitSync ==
    InitMain(SeqsUpTo(SyncLevels, MaxSyncLen), {ExampleStream}, OneAxis,
             {PlainArgs}, {TRUE}, {1}, {512})

\* every trigger over the event levels, run through convert
InitEvents ==
    InitConvert({3}, SeqsUpTo(EventLevels, MaxEventLen), {Records(ExampleStream)},
                OneAxis, {TRUE}, {1}, {512}, {Float(0)}, {Float(5)})

\* every record stream over the pool, run through convert
InitTobii ==
    InitConvert({3}, {ExampleTrigger},
                {Records(r) : r \in SeqsUpTo(RecordPool, MaxRecords)},
                OneAxis, {TRUE}, {1}, {512}, {Float(0)}, {Float(5)})

Init == InitBase
Spec == Init /\ [][Next]_vars
SpecOffsets == (InitBase \/ InitSync) /\ [][Next]_vars
SpecEvents == (InitBase \/ InitEvents) /\ [][Next]_vars
SpecTobii == (InitBase \/ InitTobii) /\ [][Next]_vars

(***************************************************************************)
(* Properties                                                              *)
(***************************************************************************)
Done == pc = "exit"
BothOverrides == args.eeg_offset # "" /\ args.tobii_offset # ""
NoOverride == args.eeg_offset = "" /\ args.tobii_offset = ""

\* transition i (zero-based) of trg is a rising edge of more than 1 and
\* less than 5
IsSyncEdge(trg, i) == At(trg, i + 1) - At(trg, i) > 1 /\ At(trg, i + 1) - At(trg, i) < 5
SyncEdgeCount(trg) == Cardinality({i \in 0..(Len(trg) - 2) : IsSyncEdge(trg, i)})

\* the same with the magnitude of the step, rising or falling
IsMagnitudeEdge(trg, i) ==
    Abs(At(trg, i + 1) - At(trg, i)) > 1 /\ Abs(At(trg, i + 1) - At(trg, i)) < 5
MagnitudeEdgeCount(trg) ==
    Cardinality({i \in 0..(Len(trg) - 2) : IsMagnitudeEdge(trg, i)})

\* the secondary stream main hands to determine_offsets
SecondaryGiven == args.tobiifile # ""
OutRecords == {i \in 1..Len(tobii_src) :
                  "dir" \in DOMAIN tobii_src[i] /\ tobii_src[i].dir = "out"}
FirstOut == CHOOSE i \in OutRecords : \A j \in OutRecords : i <= j

\* C1: with both manual offsets on the command line the resolver is never
\* called and the run, once over, has completed convert (file closed, no
\* exception), whatever the trigger and the secondary stream are.
C1_ManualOffsetsBypassResolver ==
    (entry = "main" /\ BothOverrides /\ metadatafile_exists)
        => /\ resolver_calls = 0
           /\ Done => (exc = NoExc /\ f = "closed")

\* C2: a run of main without manual override whose trigger has fewer than
\* four sync edges, or whose secondary stream has no "out" record, never
\* opens the output file nor creates anything in it, and ends with an
\* uncaught exception.
C2_NoOutputWithoutSync ==
    (entry = "main" /\ NoOverride
        /\ (SyncEdgeCount(trigger) < 4 \/ ~SecondaryGiven \/ OutRecords = {}))
        => /\ f = "unopened"
           /\ ~md_written /\ arrays = << >> /\ ~exp_starts.exists
           /\ (Done /\ metadatafile_exists) => exc # NoExc

C2_Witness ==
    /\ entry = "main" /\ NoOverride /\ Done
    /\ SyncEdgeCount(trigger) < 4
    /\ resolver_calls = 1
    /\ exc = "IndexError"
    /\ f = "unopened"

C4_SecondaryOffset ==
    (entry = "main" /\ resolver_calls = 1 /\ NoOverride /\ SecondaryGiven
        /\ OutRecords # {} /\ SyncEdgeCount(trigger) >= 4)
        => /\ exc = NoExc
           /\ tobii_offset = Float(tobii_src[FirstOut].ts + FixedLag)

\* zero-based indices of the transitions of trg INTO one of the levels
TransitionsInto(trg, levels) ==
    SortedSeq({i \in 0..(Len(trg) - 2) :
                  At(trg, i) # At(trg, i + 1) /\ At(trg, i + 1) \in levels})
Numerators(times) == [k \in 1..Len(times) |-> times[k].num]

\* C5: save_events classifies a transition by the level AFTER it: the
\* corner markers are the transitions into 8 or 10, the experiment-start
\* markers the transitions into 4 or 6.
C5_PostTransitionLevel ==
    exp_starts.exists
        => /\ Numerators(corner_events.positions) = TransitionsInto(trigger, {8, 10})
           /\ Numerators(exp_starts.positions) = TransitionsInto(trigger, {4, 6})

\* C6: with n >= 1 experiment-start positions, the extents of the region
\* (and the "experiment durations" array) are <<100>> when n = 1 and, when
\* n >= 2, n values of which the last is 100 and the others are 1.
C6_Extents ==
    (exp_starts.exists /\ Len(exp_starts.positions) >= 1)
        => LET n == Len(exp_starts.positions)
               e == exp_starts.extents
           IN  /\ exp_starts.has_extents
               /\ Len(e) = n
               /\ e[n] = 100
               /\ \A k \in 1..(n - 1) : e[k] = 1
               /\ \E a \in Range(arrays) :
                     a.name = "experiment durations" /\ a.data = e

C6_Witness ==
    /\ exp_starts.exists
    /\ Len(exp_starts.positions) = 3
    /\ exp_starts.extents = << 1, 1, 100 >>

\* C7: after a completed convert each of the two event regions references
\* exactly the arrays of the eeg group and of the tobii group.
C7_CrossProduct ==
    f = "closed"
        => \A tag \in {corner_events, exp_starts} :
              /\ tag.exists
              /\ Range(tag.references) = Range(group_eeg) \cup Range(group_tobii)

C7_Witness ==
    /\ f = "closed"
    /\ Cardinality(Range(group_eeg)) = 2
    /\ Cardinality(Range(group_tobii)) >= 7
    /\ Range(exp_starts.references) = Range(group_eeg) \cup Range(group_tobii)

\* the fourteen property channels: array name, property, eye side ("" when
\* the property does not depend on the eye)
Channel(name, prop, eye) == [name |-> name, prop |-> prop, eye |-> eye]
Channels ==
    { Channel("pupil center left", "pc", "left"),
      Channel("pupil center right", "pc", "right"),
      Channel("pupil diameter left", "pd", "left"),
      Channel("pupil diameter right", "pd", "right"),
      Channel("gaze direction left", "gd", "left"),
      Channel("gaze direction right", "gd", "right"),
      Channel("gaze position", "gp", ""),
      Channel("gaze position 3D", "gp3", ""),
      Channel("MEMS gyroscope", "gy", ""),
      Channel("MEMS accelerometer", "ac", ""),
      Channel("pipeline timestamp", "pts", ""),
      Channel("video timestamp", "vts", ""),
      Channel("evts", "evts", ""),
      Channel("sync port", "dir", "") }
EyeProps == {"pc", "pd", "gd"}

\* positions in the record list of the records a channel is built from
Matching(c) ==
    {i \in 1..Len(tobii_data.recs) :
        /\ c.prop \in DOMAIN tobii_data.recs[i]
        /\ c.eye # "" => tobii_data.recs[i].eye = c.eye}
Built_(c) == {a \in Range(arrays) : a.name = c.name}
TimeDims(a) == {k \in 1..Len(a.dims) : a.dims[k].kind \in {"range", "sampled"}}
SetDims(a) == {k \in 1..Len(a.dims) : a.dims[k].kind = "set"}
\* write_tobii_data has raised on a record list
TobiiRaised == Done /\ f = "open" /\ md_written /\ ~tobii_data.isFalse

C9_FlushCloseOnEveryExit ==
    (Done /\ f # "unopened") => f = "closed"

\* C10: a built property channel has exactly one sample (row) and, when it
\* has a time dimension, one tick per record that has the property and, for
\* an eye-dependent property, the eye side; the left and right channels of
\* a property together have one sample per record that has the property
\* with eye left or right.
C10_SampleCounts ==
    /\ \A c \in Channels : \A a \in Built_(c) :
          /\ a.size = Cardinality(Matching(c))
          /\ Len(a.data) = Cardinality(Matching(c))
          /\ \A k \in TimeDims(a) : Len(a.dims[k].ticks) = Cardinality(Matching(c))
          /\ \A i \in Matching(c) :
                Cardinality({k \in 1..Len(a.data) :
                                a.dims[1].ticks[k] = tobii_data.recs[i].ts - tobii_offset.val})
                  = Cardinality({j \in Matching(c) :
                                    tobii_data.recs[j].ts = tobii_data.recs[i].ts})
    /\ \A l \in Channels : \A r \in Channels :
          (l.prop = r.prop /\ l.eye = "left" /\ r.eye = "right")
              => \A a \in Built_(l) : \A b \in Built_(r) :
                    a.size + b.size =
                        Cardinality({i \in 1..Len(tobii_data.recs) :
                            /\ l.prop \in DOMAIN tobii_data.recs[i]
                            /\ tobii_data.recs[i].eye \in {"left", "right"}})

C10_Witness ==
    /\ pc = "convert_204"
    /\ \E l \in Channels : \E r \in Channels :
          /\ l.prop = r.prop /\ l.eye = "left" /\ r.eye = "right"
          /\ \E a \in Built_(l) : \E b \in Built_(r) : a.size = 3 /\ b.size = 1

\* the instants of both event regions, each the pair of a transition index
\* (num) and the divisor applied to it (den)
EventInstants ==
    Range(corner_events.positions) \cup Range(exp_starts.positions)

\* C11: the instant recorded for every corner and experiment-start position
\* is its transition index divided by the sampling rate sr that the loader
\* delivered, whatever sr is: index / den = index / sr.
C11_TimesAtLoaderRate ==
    exp_starts.exists
        => \A t \in EventInstants :
              /\ t.num \in Range(transition_indices(trigger))
              /\ t.num * sr = t.num * t.den

\* C12: after save_events, for any trigger (one without experiment-start
\* marker included), the "experiment starts" region has exactly as many
\* extents as positions, and so have the arrays that hold them.
C12_ExtentsMatchPositions ==
    exp_starts.exists
        => /\ exp_starts.has_extents
           /\ Len(exp_starts.extents) = Len(exp_starts.positions)
           /\ \A t \in Range(arrays) : \A d \in Range(arrays) :
                 (t.name = "experiment times" /\ d.name = "experiment durations")
                     => d.size = t.size

\* write_tobii_data has returned its group
TobiiWritten == pc = "convert_204" \/ exp_starts.exists

\* C13: once write_tobii_data has returned, every one of the fourteen
\* property channels is an array of the file and a member of the tobii
\* group, a channel without matching record included; once save_events has
\* run, both event regions reference every one of them.
C13_EveryChannelInGroup ==
    /\ TobiiWritten
          => \A c \in Channels :
                Built_(c) # {} /\ c.name \in Range(group_tobii)
    /\ exp_starts.exists
          => \A c \in Channels :
                /\ c.name \in Range(exp_starts.references)
                /\ c.name \in Range(corner_events.references)

====
